---------------------------- MODULE Spec2Model ----------------------------
(***************************************************************************)
(* Model of the plane-around-planet demo (claude-globe-plane/main.cpp and  *)
(* the Camera / sphere.h variant of the same code).                        *)
(*                                                                         *)
(* Two parts:                                                              *)
(*   - generateSphere, the UV-sphere mesh generator, checked under         *)
(*     SpecSphere, whose actions call it on the caller's two containers;   *)
(*   - the render loop with its input callbacks (processInput,             *)
(*     mouse_callback, mouse_button_callback, scroll_callback), checked    *)
(*     under Spec, with the model, view and viewPosition that a pass of    *)
(*     the loop computes from the globals; the end of the loop is checked  *)
(*     under SpecLive, which adds that glfwPollEvents returns.             *)
(*                                                                         *)
(* Numbers.  The program computes in float.  The model keeps every real    *)
(* quantity in fixed point, as an integer count of 1/One (One = 10000):    *)
(* 0.01f is 100, 2.0f is 20000, 1.05f is 10500.  Pointer positions are in  *)
(* whole pixels and scroll offsets in whole notches.                       *)
(***************************************************************************)
EXTENDS Integers, Sequences, FiniteSets, TLC

\* The fixed-point unit: the integer that stands for 1.0f.
One == 100 * 100

\* a * b and a / b of two fixed-point numbers.
FxMul(a, b) == (a * b) \div One
FxDiv(a, b) == (a * One) \div b

Abs(a) == IF a < 0 THEN -a ELSE a

(***************************************************************************)
(* <cmath>: M_PI, sinf, cosf.                                              *)
(***************************************************************************)
Pi == 31416
HalfPi == Pi \div 2
TwoPi == 2 * Pi

\* sin on [-pi/2, pi/2]: x - x^3/3! + x^5/5! - x^7/7! + x^9/9!
SinSeries(x) ==
    LET x2 == FxMul(x, x)
        t3 == FxMul(x, x2) \div 6
        t5 == FxMul(t3, x2) \div 20
        t7 == FxMul(t5, x2) \div 42
        t9 == FxMul(t7, x2) \div 72
    IN  x - t3 + t5 - t7 + t9

\* sinf(a) for any angle a: reduced to [0, 2*pi), then to the first quadrant.
SinF(a) ==
    LET r == a % TwoPi
    IN  IF r <= HalfPi THEN SinSeries(r)
        ELSE IF r <= Pi + HalfPi THEN SinSeries(Pi - r)
        ELSE SinSeries(r - TwoPi)

\* cosf(a) = sinf(a + pi/2)
CosF(a) == SinF(a + HalfPi)

(***************************************************************************)
(* generateSphere(radius, sectors, stacks, vertices, indices)              *)
(***************************************************************************)
\* float sectorStep = 2 * M_PI / sectors;  float stackStep = M_PI / stacks;
SectorStep(sectors) == TwoPi \div sectors
StackStep(stacks) == Pi \div stacks

\* Mutant of LengthInv: the radius is taken to be 1.
LengthInvOfUnit(radius) == One

\* float lengthInv = 1.0f / radius;
LengthInv(radius) == FxDiv(One, radius)

\* stackAngle = M_PI / 2 - i * stackStep;
StackAngle(i, stacks) == HalfPi - i * StackStep(stacks)

\* xy = radius * cosf(stackAngle);  z = radius * sinf(stackAngle);
StackXY(radius, i, stacks) == FxMul(radius, CosF(StackAngle(i, stacks)))
StackZ(radius, i, stacks) == FxMul(radius, SinF(StackAngle(i, stacks)))

\* The six floats pushed for the vertex of one (stack, sector):
\* x, y, z, then nx, ny, nz.
VertexFloats(radius, xy, z, sectorAngle) ==
    LET x == FxMul(xy, CosF(sectorAngle))
        y == FxMul(xy, SinF(sectorAngle))
        lengthInv == LengthInv(radius)
    IN  << x, y, z, FxMul(x, lengthInv), FxMul(y, lengthInv), FxMul(z, lengthInv) >>

\* Mutant of SectorLoopRuns: the seam vertex of every row is left out.
SectorLoopRunsExclusive(j, sectors) == j < sectors

\* for(int j = 0; j <= sectors; ++j): the loop runs while this holds.
SectorLoopRuns(j, sectors) == j <= sectors

\* for(int i = 0; i <= stacks; ++i): the loop runs while this holds.
StackLoopRuns(i, stacks) == i <= stacks

\* The inner vertex loop from sector j on, appending to vs.
RECURSIVE VertexSectorLoop(_, _, _, _, _, _)
VertexSectorLoop(j, radius, sectors, xy, z, vs) ==
    IF ~SectorLoopRuns(j, sectors) THEN vs
    ELSE VertexSectorLoop(j + 1, radius, sectors, xy, z,
             vs \o VertexFloats(radius, xy, z, j * SectorStep(sectors)))

\* The outer vertex loop from stack i on, appending to vs.
RECURSIVE VertexStackLoop(_, _, _, _, _)
VertexStackLoop(i, radius, sectors, stacks, vs) ==
    IF ~StackLoopRuns(i, stacks) THEN vs
    ELSE LET xy == StackXY(radius, i, stacks)
             z == StackZ(radius, i, stacks)
         IN  VertexStackLoop(i + 1, radius, sectors, stacks,
                 VertexSectorLoop(0, radius, sectors, xy, z, vs))

\* k1 = i * (sectors + 1), advanced by ++k1 once per sector;
\* k2 = k1 + sectors + 1, advanced by ++k2 once per sector.
K1(i, j, sectors) == i * (sectors + 1) + j
K2(k1, sectors) == k1 + sectors + 1

\* Mutants of EmitsFirst and EmitsSecond: the pole rows are not skipped.
EmitsFirstEveryStack(i) == TRUE
EmitsSecondEveryStack(i, stacks) == TRUE

\* if(i != 0): the triangle (k1, k2, k1 + 1) is emitted.
EmitsFirst(i) == i # 0
\* if(i != (stacks-1)): the triangle (k1 + 1, k2, k2 + 1) is emitted.
EmitsSecond(i, stacks) == i # (stacks - 1)

\* Mutant of FirstTriangle: the same corners in the opposite order.
FirstTriangleClockwise(k1, k2) == << k1, k1 + 1, k2 >>

\* Mutant of SecondTriangle: it starts from k1 instead of k1 + 1.
SecondTriangleFromK1(k1, k2) == << k1, k2, k2 + 1 >>

FirstTriangle(k1, k2) == << k1, k2, k1 + 1 >>
SecondTriangle(k1, k2) == << k1 + 1, k2, k2 + 1 >>

\* The indices pushed by one pass of the inner index loop body.
SectorIndices(i, j, sectors, stacks) ==
    LET k1 == K1(i, j, sectors)
        k2 == K2(k1, sectors)
    IN  (IF EmitsFirst(i) THEN FirstTriangle(k1, k2) ELSE << >>)
        \o (IF EmitsSecond(i, stacks) THEN SecondTriangle(k1, k2) ELSE << >>)

\* Mutant of IndexSectorLoopRuns: the last sector (the one closing the seam)
\* is left out.
IndexSectorLoopRunsShort(j, sectors) == j < sectors - 1

\* Mutant of IndexSectorLoopRuns: one sector too many.
IndexSectorLoopRunsInclusive(j, sectors) == j <= sectors

\* Mutant of IndexStackLoopRuns: one stack too many.
IndexStackLoopRunsInclusive(i, stacks) == i <= stacks

\* for(int j = 0; j < sectors; ++j, ++k1, ++k2): the loop runs while this holds.
IndexSectorLoopRuns(j, sectors) == j < sectors

\* for(int i = 0; i < stacks; ++i): the loop runs while this holds.
IndexStackLoopRuns(i, stacks) == i < stacks

RECURSIVE IndexSectorLoop(_, _, _, _, _)
IndexSectorLoop(i, j, sectors, stacks, is) ==
    IF ~IndexSectorLoopRuns(j, sectors) THEN is
    ELSE IndexSectorLoop(i, j + 1, sectors, stacks,
             is \o SectorIndices(i, j, sectors, stacks))

RECURSIVE IndexStackLoop(_, _, _, _)
IndexStackLoop(i, sectors, stacks, is) ==
    IF ~IndexStackLoopRuns(i, stacks) THEN is
    ELSE IndexStackLoop(i + 1, sectors, stacks,
             IndexSectorLoop(i, 0, sectors, stacks, is))

\* The two containers after the call, given the two containers before it:
\* every push_back appends, nothing is cleared.
generateSphere(radius, sectors, stacks, vs, is) ==
    [ vertices |-> VertexStackLoop(0, radius, sectors, stacks, vs),
      indices  |-> IndexStackLoop(0, sectors, stacks, is) ]

(***************************************************************************)
(* State                                                                   *)
(***************************************************************************)
VARIABLES
    \* main: the two containers handed to generateSphere
    vertices, indices,
    \* the arguments of the latest generateSphere call, and how many calls
    \* the two containers have been through
    sphereArgs, sphereCalls,
    \* globals of main.cpp (fields of Camera in camera.h)
    planeAltitude, planeSpeed, planeAngle, manualControl,
    cameraDistance, cameraAngleX, cameraAngleY,
    lastX, lastY, firstMouse, mousePressed,
    globeRotationX, globeRotationY,
    \* processInput's static local
    spacePressed,
    \* the window's close flag (glfwWindowShouldClose)
    shouldClose,
    \* where main is: "start" (before the render loop), "loop" (inside
    \* glfwPollEvents at the end of a frame), "done" (after the loop)
    pc,
    \* which of the two builds of the same code runs: "main.cpp" (globals) or
    \* "camera.h" (class Camera, driven by the main of sphere.h)
    build,
    \* the input repertoire of the user in this run, and the number of
    \* frames and events so far
    scenario, events

meshVars == << vertices, indices, sphereArgs, sphereCalls >>
planeVars == << planeAltitude, planeSpeed, planeAngle >>
manualVars == << cameraDistance, cameraAngleX, cameraAngleY >>
mouseVars == << lastX, lastY, firstMouse, mousePressed >>
globeVars == << globeRotationX, globeRotationY >>
loopVars == << manualControl, spacePressed, shouldClose, pc >>
cameraVars == << planeVars, manualVars, mouseVars, globeVars, loopVars >>
envVars == << build, scenario, events >>
vars == << meshVars, cameraVars, envVars >>

(***************************************************************************)
(* The render loop and its callbacks (Spec)                                *)
(***************************************************************************)
\* processInput: the steps and the clamp limits of the plane view.
SpeedStep == 100
AltitudeStep == 100
MinSpeed == 0
MaxSpeed == 20000
MinAltitudeMain == 10500
MinAltitudeCamera == 10800
MinAltitude == IF build = "camera.h" THEN MinAltitudeCamera ELSE MinAltitudeMain
MaxAltitude == 20000
\* processInput: float rotSpeed = 0.02f;
RotSpeed == 200
\* mouse_callback: float sensitivity = 0.01f (per pixel), and the pitch limit.
Sensitivity == 100
PitchLimit == 15000
\* scroll_callback: 0.1f per notch, and the distance limits.
ScrollStep == 1000
\* Mutant of MinDistance: the camera may come within the globe.
MinDistanceInside == One \div 2
MinDistance == 15000
MaxDistance == 100000

\* Mutant of ClampDistance: the lower limit is forgotten.
ClampDistanceNoMin(d) == IF d > MaxDistance THEN MaxDistance ELSE d

\* Mutant of ClampPitch: the lower limit is forgotten.
ClampPitchNoMin(p) == IF p > PitchLimit THEN PitchLimit ELSE p

\* Mutant of ClampAltitude: the lower limit is forgotten.
ClampAltitudeNoMin(a) == IF a > MaxAltitude THEN MaxAltitude ELSE a

\* Mutants of the clamps: the upper limit is forgotten.
ClampSpeedNoMax(s) == IF s < MinSpeed THEN MinSpeed ELSE s
ClampAltitudeNoMax(a) == IF a < MinAltitude THEN MinAltitude ELSE a
ClampPitchNoMax(p) == IF p < -PitchLimit THEN -PitchLimit ELSE p
ClampDistanceNoMax(d) == IF d < MinDistance THEN MinDistance ELSE d

\* if (planeSpeed < 0.0f) planeSpeed = 0.0f;
\* if (planeSpeed > 2.0f) planeSpeed = 2.0f;
ClampSpeed(s) ==
    LET a == IF s < MinSpeed THEN MinSpeed ELSE s
    IN  IF a > MaxSpeed THEN MaxSpeed ELSE a

\* if (planeAltitude < 1.05f) planeAltitude = 1.05f;
\* if (planeAltitude > 2.0f) planeAltitude = 2.0f;
ClampAltitude(a) ==
    LET b == IF a < MinAltitude THEN MinAltitude ELSE a
    IN  IF b > MaxAltitude THEN MaxAltitude ELSE b

\* if (cameraAngleY > 1.5f) cameraAngleY = 1.5f;
\* if (cameraAngleY < -1.5f) cameraAngleY = -1.5f;
ClampPitch(p) ==
    LET a == IF p > PitchLimit THEN PitchLimit ELSE p
    IN  IF a < -PitchLimit THEN -PitchLimit ELSE a

\* if (cameraDistance < 1.5f) cameraDistance = 1.5f;
\* if (cameraDistance > 10.0f) cameraDistance = 10.0f;
ClampDistance(d) ==
    LET a == IF d < MinDistance THEN MinDistance ELSE d
    IN  IF a > MaxDistance THEN MaxDistance ELSE a

\* The keys processInput reads with glfwGetKey.
AllKeys == { "ESC", "SPACE", "UP", "DOWN", "LEFT", "RIGHT" }

\* +1 if key `inc` is held, -1 if key `dec` is held (0 if both or neither).
KeyDelta(keys, inc, dec) ==
    (IF inc \in keys THEN 1 ELSE 0) - (IF dec \in keys THEN 1 ELSE 0)

\* Mutant of ModeAfterSpace: the mode flips on every frame that sees SPACE.
ModeAfterSpaceHeld(keys) ==
    IF "SPACE" \in keys THEN ~manualControl ELSE manualControl

\* processInput's SPACE block: the mode after it, given the keys held.
ModeAfterSpace(keys) ==
    IF "SPACE" \in keys /\ ~spacePressed THEN ~manualControl ELSE manualControl

\* processInput(window) with the set `keys` held.
processInput(keys) ==
    /\ shouldClose' = (shouldClose \/ "ESC" \in keys)
    /\ manualControl' = ModeAfterSpace(keys)
    /\ spacePressed' = ("SPACE" \in keys)
    /\ IF ~ModeAfterSpace(keys)
       THEN /\ planeSpeed' =
                 ClampSpeed(planeSpeed + SpeedStep * KeyDelta(keys, "UP", "DOWN"))
            /\ planeAltitude' =
                 ClampAltitude(planeAltitude
                               + AltitudeStep * KeyDelta(keys, "RIGHT", "LEFT"))
            /\ UNCHANGED globeVars
       ELSE /\ globeRotationY' =
                 globeRotationY + RotSpeed * KeyDelta(keys, "RIGHT", "LEFT")
            /\ globeRotationX' =
                 globeRotationX + RotSpeed * KeyDelta(keys, "DOWN", "UP")
            /\ UNCHANGED << planeSpeed, planeAltitude >>

\* Mutant of AdvanceAngle: the plane advances in manual control too.
AdvanceAngleInEitherMode(angle, speed, deltaTime, manual) ==
    angle + FxMul(speed, deltaTime)

\* Mutant of AdvanceAngle: the elapsed time is left out of the product.
AdvanceAngleWholeSecond(angle, speed, deltaTime, manual) ==
    IF manual THEN angle ELSE angle + speed

\* planeAngle += planeSpeed * deltaTime;   (plane view only)
AdvanceAngle(angle, speed, deltaTime, manual) ==
    IF manual THEN angle ELSE angle + FxMul(speed, deltaTime)

\* const unsigned int WINDOW_WIDTH = 800, WINDOW_HEIGHT = 600 (pixels)
WINDOW_WIDTH == 800
WINDOW_HEIGHT == 600

\* The initial values of the globals (planeAltitude starts at its lower limit:
\* 1.05f in main.cpp, 1.08f in camera.h), and the two empty containers of main.
StartState ==
    /\ vertices = << >>
    /\ indices = << >>
    /\ sphereArgs = << >>
    /\ sphereCalls = 0
    /\ planeAltitude = MinAltitude
    /\ planeSpeed = 3000
    /\ planeAngle = 0
    /\ manualControl = FALSE
    /\ cameraDistance = 3 * One
    /\ cameraAngleX = 0
    /\ cameraAngleY = 0
    /\ lastX = WINDOW_WIDTH \div 2
    /\ lastY = WINDOW_HEIGHT \div 2
    /\ firstMouse = TRUE
    /\ mousePressed = FALSE
    /\ globeRotationX = 0
    /\ globeRotationY = 0
    /\ spacePressed = FALSE
    /\ shouldClose = FALSE
    /\ pc = "start"

(***************************************************************************)
(* SpecSphere: generateSphere called on main's two containers.             *)
(***************************************************************************)
\* Largest sector count, largest stack count and largest number of calls on
\* the same two containers that are explored.
MaxSectors == 4
MaxStacks == 4
MaxCalls == 2
\* The radii explored: 1.0, 1.5 and 2.0.
Radii == { One, 3 * (One \div 2), 2 * One }

\* generateSphere(radius, sectors, stacks, vertices, indices);
CallGenerateSphere(radius, sectors, stacks) ==
    /\ pc = "start"
    /\ sphereCalls < MaxCalls
    /\ LET out == generateSphere(radius, sectors, stacks, vertices, indices)
       IN  /\ vertices' = out.vertices
           /\ indices' = out.indices
    /\ sphereArgs' = [ radius |-> radius, sectors |-> sectors, stacks |-> stacks ]
    /\ sphereCalls' = sphereCalls + 1
    /\ UNCHANGED << cameraVars, envVars >>

InitSphere == build = "main.cpp" /\ scenario = "startup" /\ events = 0 /\ StartState

NextSphere ==
    \E radius \in Radii, sectors \in 3..MaxSectors, stacks \in 2..MaxStacks :
        CallGenerateSphere(radius, sectors, stacks)

SpecSphere == InitSphere /\ [][NextSphere]_vars

(***************************************************************************)
(* The user and the clock.  A run belongs to one scenario, which fixes the *)
(* inputs offered in it; the unclamped quantities are explored up to caps. *)
(***************************************************************************)
\* Caps of the exploration: whole radians of yaw and of orbit angle, arrow-key
\* steps of globe rotation, and events of a "mixed" run.
MaxYawRad == 4
MaxAngleRad == 7
MaxGlobeSteps == 2
MaxMixedEvents == 4

Scenarios == { "speed", "altitude", "orbit", "pointer", "scroll", "mixed" }

KeySets ==
    CASE scenario = "speed" -> SUBSET { "UP", "DOWN", "SPACE", "ESC" }
      [] scenario = "altitude" -> SUBSET { "LEFT", "RIGHT", "SPACE" }
      [] scenario = "orbit" -> SUBSET { "LEFT", "RIGHT" }
      [] scenario = "mixed" -> { ks \in SUBSET AllKeys : Cardinality(ks) <= 2 }
      [] OTHER -> SUBSET { "SPACE" }

\* deltaTime = currentFrame - lastFrame: no time, half a second or one second.
DeltaTimes ==
    CASE scenario = "mixed" -> { 0, One }
      [] scenario = "orbit" -> { 0, One \div 2, One }
      [] OTHER -> { 0 }

\* Cursor positions (pixels) and scroll offsets (notches) delivered.
PointerXs == IF scenario \in { "pointer", "mixed" } THEN { 350, 450 } ELSE { }
PointerYs == IF scenario = "pointer" THEN { 200, 300, 400 }
             ELSE IF scenario = "mixed" THEN { 200, 400 } ELSE { }
ScrollOffsets == IF scenario = "scroll" THEN { -100, -1, 1, 100 }
                 ELSE IF scenario = "mixed" THEN { -1, 1 } ELSE { }
MouseButtons == IF scenario \in { "pointer", "mixed" } THEN { "LEFT", "RIGHT" } ELSE { }

\* The number of events of the run so far matters in a "mixed" run only.
Budget(n) == scenario = "mixed" => n < MaxMixedEvents

\* The caps hold in the next state.
WithinCaps ==
    /\ Abs(cameraAngleX') <= MaxYawRad * One
    /\ planeAngle' <= MaxAngleRad * One
    /\ Abs(globeRotationX') <= MaxGlobeSteps * RotSpeed
    /\ Abs(globeRotationY') <= MaxGlobeSteps * RotSpeed

\* One more frame or event of the run.
Count == events' = IF scenario = "mixed" THEN events + 1 ELSE events

\* One pass of the render loop, from the test of glfwWindowShouldClose to the
\* entry of glfwPollEvents, with `keys` held and `deltaTime` elapsed:
\* processInput, then the plane's advance when in plane view.  What is drawn
\* is a function of the state after the pass.
Frame(keys, deltaTime) ==
    /\ pc \in { "start", "loop" }
    /\ ~shouldClose
    /\ Budget(events)
    /\ processInput(keys)
    /\ planeAngle' = AdvanceAngle(planeAngle, planeSpeed', deltaTime, manualControl')
    /\ pc' = "loop"
    /\ Count
    /\ UNCHANGED << meshVars, manualVars, mouseVars, build, scenario >>
    /\ WithinCaps

\* mouse_callback(window, xpos, ypos), delivered by glfwPollEvents.
mouse_callback(xpos, ypos) ==
    /\ pc = "loop"
    /\ Budget(events)
    /\ IF ~mousePressed \/ ~manualControl
       THEN UNCHANGED << manualVars, mouseVars >>
       ELSE LET fromX == IF firstMouse THEN xpos ELSE lastX
                fromY == IF firstMouse THEN ypos ELSE lastY
                xoffset == xpos - fromX
                yoffset == fromY - ypos
            IN  /\ lastX' = xpos
                /\ lastY' = ypos
                /\ firstMouse' = FALSE
                /\ cameraAngleX' = cameraAngleX + xoffset * Sensitivity
                /\ cameraAngleY' = ClampPitch(cameraAngleY + yoffset * Sensitivity)
                /\ UNCHANGED << cameraDistance, mousePressed >>
    /\ Count
    /\ UNCHANGED << meshVars, planeVars, globeVars, loopVars, build, scenario >>
    /\ WithinCaps

\* mouse_button_callback(window, button, action, mods)
mouse_button_callback(button, action) ==
    /\ pc = "loop"
    /\ Budget(events)
    /\ IF button = "LEFT"
       THEN IF action = "PRESS"
            THEN mousePressed' = TRUE /\ firstMouse' = TRUE
            ELSE mousePressed' = FALSE /\ UNCHANGED firstMouse
       ELSE UNCHANGED << mousePressed, firstMouse >>
    /\ Count
    /\ UNCHANGED << meshVars, planeVars, manualVars, lastX, lastY, globeVars,
                    loopVars, build, scenario >>

\* scroll_callback(window, xoffset, yoffset)
scroll_callback(yoffset) ==
    /\ pc = "loop"
    /\ Budget(events)
    /\ cameraDistance' = ClampDistance(cameraDistance - yoffset * ScrollStep)
    /\ Count
    /\ UNCHANGED << meshVars, planeVars, cameraAngleX, cameraAngleY, mouseVars,
                    globeVars, loopVars, build, scenario >>

\* The window's close button: glfwPollEvents sets the close flag.
CloseRequest ==
    /\ pc = "loop"
    /\ Budget(events)
    /\ ~shouldClose
    /\ shouldClose' = TRUE
    /\ Count
    /\ UNCHANGED << meshVars, planeVars, manualVars, mouseVars, globeVars,
                    manualControl, spacePressed, pc, build, scenario >>

\* Mutant of Exit: the loop is left whatever the close flag.
ExitUnconditionally ==
    /\ pc = "loop"
    /\ pc' = "done"
    /\ UNCHANGED << meshVars, planeVars, manualVars, mouseVars, globeVars,
                    manualControl, spacePressed, shouldClose, envVars >>

\* glfwPollEvents returns, the loop test fails: clean up and return.
Exit ==
    /\ pc = "loop"
    /\ shouldClose
    /\ pc' = "done"
    /\ UNCHANGED << meshVars, planeVars, manualVars, mouseVars, globeVars,
                    manualControl, spacePressed, shouldClose, envVars >>

Builds == { "main.cpp", "camera.h" }

Init == build \in Builds /\ scenario \in Scenarios /\ events = 0 /\ StartState

Next ==
    \/ \E keys \in KeySets, deltaTime \in DeltaTimes : Frame(keys, deltaTime)
    \/ \E xpos \in PointerXs, ypos \in PointerYs : mouse_callback(xpos, ypos)
    \/ \E button \in MouseButtons, action \in { "PRESS", "RELEASE" } :
          mouse_button_callback(button, action)
    \/ \E yoffset \in ScrollOffsets : scroll_callback(yoffset)
    \/ CloseRequest
    \/ Exit

Spec == Init /\ [][Next]_vars

\* glfwPollEvents does not block: it handles the events that are pending and
\* returns, so the loop test that follows it is reached.
SpecLive == Spec /\ WF_vars(Exit)

(***************************************************************************)
(* Reading the mesh held by the two containers                             *)
(***************************************************************************)
NumVertices == Len(vertices) \div 6
NumTriangles == Len(indices) \div 3
VertexIds == 0 .. (NumVertices - 1)
TriangleIds == 0 .. (NumTriangles - 1)
VertexPosition(v) == << vertices[6 * v + 1], vertices[6 * v + 2], vertices[6 * v + 3] >>
VertexNormal(v) == << vertices[6 * v + 4], vertices[6 * v + 5], vertices[6 * v + 6] >>
Triangle(t) == << indices[3 * t + 1], indices[3 * t + 2], indices[3 * t + 3] >>
Corners(t) == { indices[3 * t + 1], indices[3 * t + 2], indices[3 * t + 3] }

\* One call has been made, on empty containers.
FreshCall == sphereCalls = 1
\* ... with arguments in the documented domain.
ValidCall == FreshCall /\ sphereArgs.sectors >= 3 /\ sphereArgs.stacks >= 3

\* The stack row of vertex v when a row holds n vertices.
RowOf(v, n) == v \div n

Sub(u, v) == << u[1] - v[1], u[2] - v[2], u[3] - v[3] >>
Dot(u, v) == u[1] * v[1] + u[2] * v[2] + u[3] * v[3]
\* u x v, each product brought back to the fixed-point unit.
Cross(u, v) ==
    << FxMul(u[2], v[3]) - FxMul(u[3], v[2]),
       FxMul(u[3], v[1]) - FxMul(u[1], v[3]),
       FxMul(u[1], v[2]) - FxMul(u[2], v[1]) >>

\* The normal of triangle t by the right-hand rule: (Pb - Pa) x (Pc - Pa).
FaceNormal(t) ==
    LET tri == Triangle(t)
        pa == VertexPosition(tri[1])
    IN  Cross(Sub(VertexPosition(tri[2]), pa), Sub(VertexPosition(tri[3]), pa))

(***************************************************************************)
(* glm: length, normalize, vector and matrix arithmetic                    *)
(***************************************************************************)
\* Newton's iteration for the integer square root, from an estimate x that is
\* not below it.
RECURSIVE SqrtFrom(_, _)
SqrtFrom(n, x) ==
    LET y == (x + n \div x) \div 2
    IN  IF y >= x THEN x ELSE SqrtFrom(n, y)

\* sqrt of a sum of squares of fixed-point numbers (below 5.0 in length).
Sqrt(n) == IF n = 0 THEN 0 ELSE SqrtFrom(n, 5 * One)

\* glm::length(v).  A vector with a component beyond 2.0 is measured in
\* quarters, which keeps the sum of squares within the integers at hand.
Length(v) ==
    LET k == IF \E c \in 1..3 : Abs(v[c]) > 2 * One THEN 4 ELSE 1
        w == << v[1] \div k, v[2] \div k, v[3] \div k >>
    IN  k * Sqrt(Dot(w, w))

\* A float keeps its relative precision however small it is: a short vector
\* is doubled until a component reaches 0.5 before its length is taken.
RECURSIVE Magnified(_)
Magnified(v) ==
    IF v = << 0, 0, 0 >> \/ \E c \in 1..3 : 2 * Abs(v[c]) >= One
    THEN v
    ELSE Magnified(<< 2 * v[1], 2 * v[2], 2 * v[3] >>)

\* glm::normalize(v): v divided by its length (a zero v has no quotient).
Normalize(v) ==
    LET w == Magnified(v)
        len == Length(w)
    IN  << FxDiv(w[1], len), FxDiv(w[2], len), FxDiv(w[3], len) >>

\* v * s and u + v
Scale(v, s) == << FxMul(v[1], s), FxMul(v[2], s), FxMul(v[3], s) >>
Add(u, v) == << u[1] + v[1], u[2] + v[2], u[3] + v[3] >>

\* glm::mat4(1.0f), as the three rows of its rotation part.
Identity == << << One, 0, 0 >>, << 0, One, 0 >>, << 0, 0, One >> >>

\* a * b of two matrices.
MatMul(a, b) ==
    [ i \in 1..3 |->
        [ j \in 1..3 |->
            FxMul(a[i][1], b[1][j]) + FxMul(a[i][2], b[2][j])
              + FxMul(a[i][3], b[3][j]) ] ]

\* The rotation by `angle` about the Y axis and about the X axis.
RotationY(angle) ==
    << << CosF(angle), 0, SinF(angle) >>,
       << 0, One, 0 >>,
       << -SinF(angle), 0, CosF(angle) >> >>
RotationX(angle) ==
    << << One, 0, 0 >>,
       << 0, CosF(angle), -SinF(angle) >>,
       << 0, SinF(angle), CosF(angle) >> >>

\* glm::rotate(m, angle, axis): m times the rotation.
Rotate(m, angle, axis) ==
    MatMul(m, IF axis = "Y" THEN RotationY(angle) ELSE RotationX(angle))

\* glm::lookAt(eye, center, up): the camera's position and its three axes
\* f (towards center), s (side) and u (up), which make up the view matrix.
LookAt(eye, center, up) ==
    LET f == Normalize(Sub(center, eye))
        s == Normalize(Cross(f, up))
    IN  [ eye |-> eye, f |-> f, s |-> s, u |-> Cross(s, f) ]

(***************************************************************************)
(* What a pass of the render loop computes from the globals, for the       *)
(* uniforms `model`, `view` and `viewPos`.                                 *)
(***************************************************************************)
\* sin(planeAngle * 2.0f) * 0.4f, planeAngle + 0.01f, planeTilt = 0.15f
PathAmplitude == 4000
TangentStep == 100
planeTilt == 1500

\* float pathVariation = sin(planeAngle * 2.0f) * 0.4f;
PathVariation(angle) == FxMul(SinF(2 * angle), PathAmplitude)

\* glm::vec3(planeX, planeY, planeZ), before it is normalized.
PlaneRaw(angle, altitude) ==
    << FxMul(altitude, CosF(angle)),
       PathVariation(angle),
       FxMul(altitude, SinF(angle)) >>

\* Mutant of PlanePos: the raw vector is used as it is.
PlanePosRaw(angle, altitude) == PlaneRaw(angle, altitude)

\* planePos = glm::normalize(planePos) * planeAltitude;
PlanePos(angle, altitude) == Scale(Normalize(PlaneRaw(angle, altitude)), altitude)

\* nextPos: the same at nextAngle = planeAngle + 0.01f.
NextPos(angle, altitude) ==
    LET nextAngle == angle + TangentStep
        nextPathVariation == FxMul(SinF(2 * nextAngle), PathAmplitude)
    IN  Scale(Normalize(<< FxMul(altitude, CosF(nextAngle)),
                           nextPathVariation,
                           FxMul(altitude, SinF(nextAngle)) >>), altitude)

\* Mutant of Forward: the difference is not normalized.
ForwardRaw(nextPos, planePos) == Sub(nextPos, planePos)

\* glm::vec3 forward = glm::normalize(nextPos - planePos);
Forward(nextPos, planePos) == Normalize(Sub(nextPos, planePos))

\* glm::vec3 up = glm::normalize(planePos);
UpEstimate(planePos) == Normalize(planePos)

\* glm::vec3 right = glm::cross(forward, up);
Right(forward, upEstimate) == Cross(forward, upEstimate)

\* up = glm::cross(right, forward);
Up(right, forward) == Cross(right, forward)

\* glm::vec3 lookTarget = planePos + forward + up * (-planeTilt);
LookTarget(planePos, forward, up) ==
    Add(Add(planePos, forward), Scale(up, -planeTilt))

\* The locals of the plane-view branch of the loop body, for a plane at
\* `angle` and `altitude`.
PlaneLocals(angle, altitude) ==
    LET planePos == PlanePos(angle, altitude)
        nextPos == NextPos(angle, altitude)
        forward == Forward(nextPos, planePos)
        right == Right(forward, UpEstimate(planePos))
        up == Up(right, forward)
    IN  [ planePos |-> planePos, nextPos |-> nextPos, forward |-> forward,
          right |-> right, up |-> up,
          lookTarget |-> LookTarget(planePos, forward, up) ]

\* Mutant of CameraPos: the height is taken with the cosine of the pitch.
CameraPosFlat(yaw, pitch, distance) ==
    << FxMul(FxMul(SinF(yaw), CosF(pitch)), distance),
       FxMul(CosF(pitch), distance),
       FxMul(FxMul(CosF(yaw), CosF(pitch)), distance) >>

\* glm::vec3(camX, camY, camZ)
CameraPos(yaw, pitch, distance) ==
    << FxMul(FxMul(SinF(yaw), CosF(pitch)), distance),
       FxMul(SinF(pitch), distance),
       FxMul(FxMul(CosF(yaw), CosF(pitch)), distance) >>

\* glm::vec3(0.0f, 0.0f, 0.0f) and glm::vec3(0.0f, 1.0f, 0.0f)
Origin == << 0, 0, 0 >>
WorldUp == << 0, One, 0 >>

\* glm::mat4 view, as the loop body computes it from the globals.
view ==
    IF ~manualControl
    THEN LET plane == PlaneLocals(planeAngle, planeAltitude)
         IN  LookAt(plane.planePos, plane.lookTarget, plane.up)
    ELSE LookAt(CameraPos(cameraAngleX, cameraAngleY, cameraDistance),
                Origin, WorldUp)

\* Mutant of model: the two rotations in the other order.
modelXThenY ==
    IF manualControl
    THEN Rotate(Rotate(Identity, globeRotationX, "X"), globeRotationY, "Y")
    ELSE Identity

\* glm::mat4 model: the identity, rotated about Y and then about X in manual
\* control.
model ==
    IF manualControl
    THEN Rotate(Rotate(Identity, globeRotationY, "Y"), globeRotationX, "X")
    ELSE Identity

\* Mutant of viewPosition: the plane's position is not brought back to the
\* altitude.
viewPositionUnscaled ==
    IF ~manualControl
    THEN Normalize(PlaneRaw(planeAngle, planeAltitude))
    ELSE CameraPos(cameraAngleX, cameraAngleY, cameraDistance)

\* glm::vec3 viewPosition, sent as the uniform viewPos.
viewPosition ==
    IF ~manualControl
    THEN LET pathVariation == FxMul(SinF(planeAngle * 2), PathAmplitude)
         IN  Scale(Normalize(<< FxMul(planeAltitude, CosF(planeAngle)),
                                pathVariation,
                                FxMul(planeAltitude, SinF(planeAngle)) >>),
                   planeAltitude)
    ELSE << FxMul(FxMul(SinF(cameraAngleX), CosF(cameraAngleY)), cameraDistance),
            FxMul(SinF(cameraAngleY), cameraDistance),
            FxMul(FxMul(CosF(cameraAngleX), CosF(cameraAngleY)), cameraDistance) >>

(***************************************************************************)
(* Claims about generateSphere (under SpecSphere)                          *)
(***************************************************************************)

\* C1: called with empty containers and sectors >= 3, stacks >= 3,
\* generateSphere produces exactly (stacks+1)*(sectors+1) vertices of 6 floats
\* each, in row-major order: the 6 floats at vertex index i*(sectors+1)+j are
\* those of stack i and sector j.
C1_VertexCountAndOrder ==
    ValidCall =>
        LET r == sphereArgs.radius
            s == sphereArgs.sectors
            t == sphereArgs.stacks
        IN  /\ Len(vertices) = 6 * (t + 1) * (s + 1)
            /\ \A i \in 0..t, j \in 0..s :
                   LET v == i * (s + 1) + j
                   IN  SubSeq(vertices, 6 * v + 1, 6 * v + 6)
                         = VertexFloats(r, StackXY(r, i, t), StackZ(r, i, t),
                                        j * SectorStep(s))

C1_Witness ==
    /\ ValidCall
    /\ sphereArgs.sectors = 4 /\ sphereArgs.stacks = 3
    /\ NumVertices = 20

\* C2: for sectors >= 3 and stacks >= 3 the index buffer has length
\* 2*sectors*(stacks-1)*3, that is 2*sectors*(stacks-1) triangles.
C2_IndexCount ==
    ValidCall =>
        Len(indices) = 2 * sphereArgs.sectors * (sphereArgs.stacks - 1) * 3

C2_Witness ==
    /\ ValidCall
    /\ sphereArgs.sectors = 3 /\ sphereArgs.stacks = 4
    /\ NumTriangles = 18

\* C3: every emitted index is >= 0 and strictly below the number of
\* generated vertices (stacks+1)*(sectors+1).
C3_IndicesInBounds ==
    ValidCall =>
        \A n \in 1..Len(indices) :
            /\ 0 <= indices[n]
            /\ indices[n] < (sphereArgs.stacks + 1) * (sphereArgs.sectors + 1)
            /\ indices[n] < NumVertices

C3_Witness ==
    /\ ValidCall
    /\ \E n \in 1..Len(indices) : indices[n] = NumVertices - 2

\* C4: every emitted triangle is counter-clockwise seen from outside: the
\* cross product of its edges has a positive dot product with the vertex
\* normal at each of its three corners.
C4_WindingOutward ==
    ValidCall =>
        \A t \in TriangleIds :
            \A c \in Corners(t) : Dot(FaceNormal(t), VertexNormal(c)) > 0

C4_Witness ==
    /\ ValidCall
    /\ sphereArgs.radius = 2 * One
    /\ \E t \in TriangleIds :
          /\ \E c \in Corners(t) : RowOf(c, sphereArgs.sectors + 1) = 0
          /\ \A c \in Corners(t) : Dot(FaceNormal(t), VertexNormal(c)) > 0

\* C5: no emitted triangle is a degenerate pole triangle: none has two
\* corners in row 0 or two in row `stacks`, and each has three distinct
\* indices taken from two adjacent rows.  In the example (sectors = 4,
\* stacks = 2): 15 vertices, and rows i = 0 and i = 1 contribute one triangle
\* per sector each.
C5_NoDegeneratePoleTriangle ==
    FreshCall =>
        LET s == sphereArgs.sectors
            n == sphereArgs.sectors + 1
            last == sphereArgs.stacks
            InRow(t, row) == { k \in 1..3 : RowOf(Triangle(t)[k], n) = row }
            Touching(row) == { t \in TriangleIds : InRow(t, row) # {} }
        IN  /\ \A t \in TriangleIds :
                  /\ Cardinality(InRow(t, 0)) <= 1
                  /\ Cardinality(InRow(t, last)) <= 1
                  /\ Cardinality(Corners(t)) = 3
                  /\ \E i \in 0..(last - 1) :
                        { RowOf(c, n) : c \in Corners(t) } = { i, i + 1 }
            /\ (s = 4 /\ last = 2) =>
                  /\ NumVertices = 15
                  /\ NumTriangles = 8
                  /\ Cardinality(Touching(0)) = 4
                  /\ Cardinality(Touching(2)) = 4

C5_Witness ==
    /\ FreshCall
    /\ sphereArgs.sectors = 4 /\ sphereArgs.stacks = 2
    /\ NumTriangles = 8

\* The vertex that stands for v once the duplicates are identified: all of
\* row 0 is one point, all of row `stacks` is one point, and sector `sectors`
\* of a row is its sector 0.
Canonical(v) ==
    LET n == sphereArgs.sectors + 1
        i == v \div n
        j == v % n
    IN  IF i = 0 THEN 0
        ELSE IF i = sphereArgs.stacks THEN i * n
        ELSE IF j = sphereArgs.sectors THEN i * n
        ELSE v

\* The undirected edges of triangle t after identification.
TriangleEdges(t) ==
    LET tri == Triangle(t)
        a == Canonical(tri[1])
        b == Canonical(tri[2])
        c == Canonical(tri[3])
    IN  { {a, b}, {b, c}, {c, a} }

\* C6: for sectors >= 3 and stacks >= 3 the mesh is a closed surface: after
\* identifying the duplicated seam and pole vertices every undirected triangle
\* edge joins two distinct points and belongs to exactly two triangles.
C6_ClosedSurface ==
    ValidCall =>
        \A t \in TriangleIds : \A e \in TriangleEdges(t) :
            /\ Cardinality(e) = 2
            /\ Cardinality({ u \in TriangleIds : e \in TriangleEdges(u) }) = 2

C6_Witness ==
    /\ ValidCall
    /\ sphereArgs.sectors = 4 /\ sphereArgs.stacks = 4
    /\ \E t \in TriangleIds : \E c \in Corners(t) :
          c % (sphereArgs.sectors + 1) = sphereArgs.sectors

\* C7: the result of generateSphere is determined by (radius, sectors,
\* stacks) alone: whatever the containers held before the call, after it they
\* hold the mesh of the three arguments.
C7_ResultDeterminedByArguments ==
    sphereCalls >= 1 =>
        LET out == generateSphere(sphereArgs.radius, sphereArgs.sectors,
                                  sphereArgs.stacks, << >>, << >>)
        IN  vertices = out.vertices /\ indices = out.indices

(***************************************************************************)
(* Claims about the clamped parameters (under Spec)                        *)
(***************************************************************************)

\* C8: in every reachable state plane speed is in [0, 2.0], plane altitude in
\* [min, 2.0] (min = 1.05 in main.cpp, 1.08 in Camera), manual pitch in
\* [-1.5, 1.5], which lies strictly inside (-pi/2, pi/2), and camera distance
\* in [1.5, 10.0].
C8_ParametersInRange ==
    /\ 0 <= planeSpeed /\ planeSpeed <= 2 * One
    /\ (IF build = "camera.h" THEN 108 ELSE 105) * (One \div 100) <= planeAltitude
    /\ planeAltitude <= 2 * One
    /\ -15 * (One \div 10) <= cameraAngleY /\ cameraAngleY <= 15 * (One \div 10)
    /\ -HalfPi < -15 * (One \div 10) /\ 15 * (One \div 10) < HalfPi
    /\ 15 * (One \div 10) <= cameraDistance /\ cameraDistance <= 10 * One

\* Key, scroll and frame events have acted, and the lower altitude clamp of
\* the Camera build has engaged.
C8_Witness ==
    /\ build = "camera.h"
    /\ manualControl
    /\ planeSpeed < 3000
    /\ planeAltitude = MinAltitudeCamera
    /\ cameraDistance > 3 * One

\* C9: the clamps saturate.  A frame of the plane view with "increase
\* altitude" (RIGHT, not LEFT) held leaves an altitude that is at its maximum
\* exactly there; the same for the speed at its maximum under UP and at 0
\* under DOWN, for the distance at 1.5 under a scroll that zooms in and at
\* 10.0 under one that zooms out, and for the pitch at +1.5 / -1.5 under a drag
\* that goes on in the same direction.  Stated per step: a step that takes a
\* parameter off the limit it was on is not such an input.
C9_Saturation ==
    LET \* The step is a frame of the plane view with key `inc` held, not `dec`.
        PlaneFrame(inc, dec) ==
            \E keys \in SUBSET AllKeys, deltaTime \in { 0, One } :
                /\ Frame(keys, deltaTime)
                /\ ~manualControl'
                /\ KeyDelta(keys, inc, dec) = 1
        \* The step is a scroll whose offset is in `offsets`.
        ScrollBy(offsets) == \E yoffset \in offsets : scroll_callback(yoffset)
        \* The step is a pointer move of a drag that does not turn back down
        \* (up = TRUE) or back up (up = FALSE).
        DragOn(up) ==
            /\ mousePressed /\ manualControl
            /\ \E xpos \in { 350, 450 }, ypos \in { 200, 300, 400 } :
                  /\ mouse_callback(xpos, ypos)
                  /\ firstMouse \/ (IF up THEN ypos <= lastY ELSE ypos >= lastY)
    IN  /\ (planeAltitude = MaxAltitude /\ planeAltitude' # MaxAltitude)
              => ~PlaneFrame("RIGHT", "LEFT")
        /\ (planeSpeed = MaxSpeed /\ planeSpeed' # MaxSpeed)
              => ~PlaneFrame("UP", "DOWN")
        /\ (planeSpeed = 0 /\ planeSpeed' # 0)
              => ~PlaneFrame("DOWN", "UP")
        /\ (cameraDistance = MinDistance /\ cameraDistance' # MinDistance)
              => ~ScrollBy(0..100)
        /\ (cameraDistance = MaxDistance /\ cameraDistance' # MaxDistance)
              => ~ScrollBy(-100..0)
        /\ (cameraAngleY = PitchLimit /\ cameraAngleY' # PitchLimit)
              => ~DragOn(TRUE)
        /\ (cameraAngleY = -PitchLimit /\ cameraAngleY' # -PitchLimit)
              => ~DragOn(FALSE)

\* C9: every step of every run saturates as stated above.
C9_SaturationProperty == [][C9_Saturation]_vars

\* The altitude is at its maximum in the plane view, and the frame that
\* increases it again is about to run and leaves it there.
C9_Witness ==
    /\ planeAltitude = MaxAltitude
    /\ ~manualControl
    /\ ENABLED (Frame({ "RIGHT" }, 0) /\ planeAltitude' = MaxAltitude)

\* C10 as claimed: every parameter the user can change (speed, altitude, yaw,
\* pitch, distance, globe rotation about X and about Y) stays within a fixed
\* bounded range: the four limits of the code, and for the three angles that
\* have no limit in the code, half a turn either way.
C10_AllParametersBounded ==
    /\ MinSpeed <= planeSpeed /\ planeSpeed <= MaxSpeed
    /\ MinAltitude <= planeAltitude /\ planeAltitude <= MaxAltitude
    /\ Abs(cameraAngleY) <= PitchLimit
    /\ MinDistance <= cameraDistance /\ cameraDistance <= MaxDistance
    /\ Abs(cameraAngleX) <= Pi
    /\ Abs(globeRotationX) <= Pi
    /\ Abs(globeRotationY) <= Pi

\* C10 as amended: after every update speed, altitude, pitch and distance are
\* within their limits; yaw and the two globe rotations are accumulated as
\* they come, by the whole drag or the whole key step, with no limit applied.
C10_Update ==
    /\ MinSpeed <= planeSpeed' /\ planeSpeed' <= MaxSpeed
    /\ MinAltitude <= planeAltitude' /\ planeAltitude' <= MaxAltitude
    /\ Abs(cameraAngleY') <= PitchLimit
    /\ MinDistance <= cameraDistance' /\ cameraDistance' <= MaxDistance
    /\ cameraAngleX' # cameraAngleX =>
          cameraAngleX' = cameraAngleX + (lastX' - lastX) * Sensitivity
    /\ globeRotationX' # globeRotationX =>
          Abs(globeRotationX' - globeRotationX) = RotSpeed
    /\ globeRotationY' # globeRotationY =>
          Abs(globeRotationY' - globeRotationY) = RotSpeed

\* C10 as amended, over every step of every run.
C10_ClampedOrAccumulated == [][C10_Update]_vars

\* The pitch sits on its limit while the yaw has run past half a turn.
C10_Witness ==
    /\ cameraAngleY = PitchLimit
    /\ Abs(cameraAngleX) > Pi

(***************************************************************************)
(* Claims about what a frame computes (under Spec)                         *)
(***************************************************************************)
\* C11: in automatic orbit mode every frame advances the orbit angle by
\* exactly speed * dt, with the speed that this frame's input processing and
\* clamping left ...
C11_Frame ==
    \A deltaTime \in DeltaTimes :
        (/\ ~manualControl'
         /\ \E keys \in KeySets : Frame(keys, deltaTime))
        => planeAngle' = planeAngle + FxMul(planeSpeed', deltaTime)

\* ... and the frame's view is taken at the plane's position for the angle
\* and the altitude the frame has left.
C11_View ==
    (pc = "loop" /\ ~manualControl)
        => view.eye = PlanePos(planeAngle, planeAltitude)

\* C11: every frame of every run advances the angle by speed * dt, and views
\* the globe from the advanced angle.
C11_AngleAdvancesBySpeedTimesDt == [][C11_Frame]_vars /\ []C11_View

\* One second has passed in a frame that also raised the speed from 0.30 to
\* 0.31: the angle has advanced by 0.31.
C11_Witness ==
    /\ pc = "loop"
    /\ ~manualControl
    /\ planeSpeed = 3000 + SpeedStep
    /\ planeAngle = 3000 + SpeedStep

\* Lengths and dot products are compared to within 0.001.
Tolerance == One \div 1000

\* C12: in automatic orbit mode the camera position has magnitude equal to
\* the current altitude at every frame, for every orbit angle and every
\* altitude of the clamped range: the raw vector (altitude*cos(angle),
\* 0.4*sin(2*angle), altitude*sin(angle)) is never the zero vector, and is
\* normalized and then rescaled to length altitude.
C12_PositionAtAltitude ==
    (pc = "loop" /\ ~manualControl) =>
        LET raw == << FxMul(planeAltitude, CosF(planeAngle)),
                      FxMul(4 * (One \div 10), SinF(2 * planeAngle)),
                      FxMul(planeAltitude, SinF(planeAngle)) >>
            planePos == PlanePos(planeAngle, planeAltitude)
        IN  /\ raw # << 0, 0, 0 >>
            /\ Length(raw) > 0
            /\ planePos = Scale(Normalize(raw), planeAltitude)
            /\ Abs(Length(planePos) - planeAltitude) <= Tolerance

\* The plane is at the top of its altitude range, past half a turn and far
\* from the equator.
C12_Witness ==
    /\ pc = "loop"
    /\ ~manualControl
    /\ planeAltitude = MaxAltitude
    /\ planeAngle > Pi
    /\ Abs(PathVariation(planeAngle)) > 3 * (One \div 10)

C14_VertexOnSphere ==
    ValidCall =>
        LET r == sphereArgs.radius
            n == sphereArgs.sectors + 1
        IN  \A v \in VertexIds :
                LET phi == HalfPi - (v \div n) * (Pi \div sphereArgs.stacks)
                    theta == (v % n) * (TwoPi \div sphereArgs.sectors)
                    position == VertexPosition(v)
                    normal == VertexNormal(v)
                IN  /\ position = << FxMul(FxMul(r, CosF(phi)), CosF(theta)),
                                     FxMul(FxMul(r, CosF(phi)), SinF(theta)),
                                     FxMul(r, SinF(phi)) >>
                    /\ Abs(Length(position) - r) <= Tolerance
                    /\ Abs(Length(normal) - One) <= Tolerance
                    /\ \A c \in 1..3 : Abs(normal[c] - FxDiv(position[c], r)) <= 1

\* A sphere of radius 2.0 has been generated, and one of its vertices lies
\* off all three coordinate planes.
C14_Witness ==
    /\ ValidCall
    /\ sphereArgs.radius = 2 * One
    /\ \E v \in VertexIds : \A c \in 1..3 : Abs(VertexPosition(v)[c]) > One \div 10

(***************************************************************************)
(* Claims about the manual view and the input handlers (under Spec)        *)
(***************************************************************************)
\* C15: in manual mode the view is built from
\* eye = distance * (sin(yaw)*cos(pitch), sin(pitch), cos(yaw)*cos(pitch)),
\* the look target fixed at the origin and up fixed at world-up (0, 1, 0);
\* as |pitch| <= 1.5 < pi/2 and distance >= 1.5, in no reachable state does
\* the eye coincide with the target or the view direction run parallel to up.
C15_ManualView ==
    (pc = "loop" /\ manualControl) =>
        LET eye == << FxMul(cameraDistance, FxMul(SinF(cameraAngleX), CosF(cameraAngleY))),
                      FxMul(cameraDistance, SinF(cameraAngleY)),
                      FxMul(cameraDistance, FxMul(CosF(cameraAngleX), CosF(cameraAngleY))) >>
            target == << 0, 0, 0 >>
            worldUp == << 0, One, 0 >>
            direction == Normalize(Sub(target, eye))
        IN  /\ view = LookAt(eye, target, worldUp)
            /\ Abs(cameraAngleY) <= PitchLimit /\ PitchLimit < HalfPi
            /\ cameraDistance >= MinDistance
            /\ eye # target
            /\ Length(Sub(target, eye)) > One
            /\ Cross(direction, worldUp) # << 0, 0, 0 >>
            /\ Length(Cross(direction, worldUp)) >= CosF(PitchLimit) - Tolerance

\* The manual camera has been dragged to the pitch limit and round the globe
\* by a radian or more.
C15_Witness ==
    /\ pc = "loop"
    /\ manualControl
    /\ Abs(cameraAngleY) = PitchLimit
    /\ Abs(cameraAngleX) >= One

\* The step is the handling of a pointer move to (x, y).
IsPointerMove(x, y) == mouse_callback(x, y)

\* The pitch p brought back into [-1.5, 1.5].
C16_Clamped(p) ==
    IF p > 15 * (One \div 10) THEN 15 * (One \div 10)
    ELSE IF p < -15 * (One \div 10) THEN -15 * (One \div 10)
    ELSE p

\* What C16 says of one step, the drag being measured from (fromX, fromY).
C16_Step(fromX(_), fromY(_)) ==
    /\ (cameraAngleX' # cameraAngleX \/ cameraAngleY' # cameraAngleY)
          => /\ mousePressed /\ manualControl
             /\ \E x \in PointerXs, y \in PointerYs : IsPointerMove(x, y)
    /\ \A x \in PointerXs, y \in PointerYs :
          IsPointerMove(x, y) =>
              IF mousePressed /\ manualControl
              THEN /\ cameraAngleX' = cameraAngleX + (One \div 100) * (x - fromX(x))
                   /\ cameraAngleY' =
                         C16_Clamped(cameraAngleY + (One \div 100) * (fromY(y) - y))
              ELSE UNCHANGED << cameraAngleX, cameraAngleY, lastX, lastY >>

\* C16 as claimed: yaw and pitch change only on a pointer move received while
\* the left button is held and the mode is manual; such an event adds
\* 0.01*(x - lastX) to yaw and 0.01*(lastY - y) to pitch (then clamps pitch),
\* lastX and lastY being the position the previous event left.  Pointer moves
\* in automatic mode or with the button released leave yaw, pitch, lastX and
\* lastY unchanged, and no other event changes yaw or pitch.
C16_DragFromLast ==
    [][LET FromLastX(x) == lastX
           FromLastY(y) == lastY
       IN  C16_Step(FromLastX, FromLastY)]_vars

\* C16 as amended: the same, the drag being measured from (lastX, lastY)
\* except on the first move after a press of the left button, which is
\* measured from its own position and so adds nothing.
C16_DragFromLastOrPress ==
    [][LET FromX(x) == IF firstMouse THEN x ELSE lastX
           FromY(y) == IF firstMouse THEN y ELSE lastY
       IN  C16_Step(FromX, FromY)]_vars

\* A drag is under way and has turned the camera by one radian each way,
\* short of the pitch limit.
C16_Witness ==
    /\ manualControl /\ mousePressed /\ ~firstMouse
    /\ Abs(cameraAngleX) = One
    /\ Abs(cameraAngleY) = One

\* What C17 says of one step: a frame in manual mode moves each globe angle
\* by 0.02 times the balance of its two arrow keys and leaves the cameras
\* alone, and nothing else moves a globe angle.
C17_Step ==
    /\ \A keys \in KeySets, deltaTime \in DeltaTimes :
          (manualControl' /\ Frame(keys, deltaTime)) =>
              /\ globeRotationY' =
                    globeRotationY + 2 * (One \div 100) * KeyDelta(keys, "RIGHT", "LEFT")
              /\ globeRotationX' =
                    globeRotationX + 2 * (One \div 100) * KeyDelta(keys, "DOWN", "UP")
              /\ UNCHANGED << cameraAngleX, cameraAngleY, cameraDistance,
                              planeAngle, planeSpeed, planeAltitude >>
    /\ (globeRotationX' # globeRotationX \/ globeRotationY' # globeRotationY)
          => /\ manualControl'
             /\ \E keys \in KeySets, deltaTime \in DeltaTimes : Frame(keys, deltaTime)

\* The model matrix is the identity in automatic mode and, in manual mode,
\* the rotation about Y by globeRotationY times the rotation about X by
\* globeRotationX, whatever the rest of the state.
C17_Model ==
    LET cy == CosF(globeRotationY)
        sy == SinF(globeRotationY)
        cx == CosF(globeRotationX)
        sx == SinF(globeRotationX)
    IN  model = IF ~manualControl
                THEN << << One, 0, 0 >>, << 0, One, 0 >>, << 0, 0, One >> >>
                ELSE << << cy, FxMul(sy, sx), FxMul(sy, cx) >>,
                        << 0, cx, -sx >>,
                        << -sy, FxMul(cy, sx), FxMul(cy, cx) >> >>

\* C17: globe rotation is independent of the camera: rotate events (arrow
\* keys in manual mode) change only globeRotationX / globeRotationY, by
\* +/-0.02 per frame, and leave yaw, pitch, distance, orbit angle, speed and
\* altitude unchanged; the model matrix depends only on the mode and the two
\* globe angles (identity in automatic mode, rotate-Y(globeRotationY) then
\* rotate-X(globeRotationX) in manual mode).
C17_GlobeRotationIndependent == [][C17_Step]_vars /\ []C17_Model

\* The globe has been turned about both axes in manual mode.
C17_Witness ==
    /\ pc = "loop"
    /\ manualControl
    /\ globeRotationX # 0
    /\ globeRotationY # 0

\* x brought back into [lo, hi].
C18_Clamped(x, lo, hi) == IF x < lo THEN lo ELSE IF x > hi THEN hi ELSE x

\* What C18 says of one step.
C18_Step ==
    LET minAltitude == (IF build = "camera.h" THEN 108 ELSE 105) * (One \div 100)
        step == One \div 100
    IN  /\ \A keys \in KeySets, deltaTime \in DeltaTimes :
              Frame(keys, deltaTime) =>
                  IF ~manualControl'
                  THEN /\ planeSpeed' =
                            C18_Clamped(planeSpeed + step * KeyDelta(keys, "UP", "DOWN"),
                                        0, 2 * One)
                       /\ planeAltitude' =
                            C18_Clamped(planeAltitude
                                          + step * KeyDelta(keys, "RIGHT", "LEFT"),
                                        minAltitude, 2 * One)
                  ELSE UNCHANGED << planeSpeed, planeAltitude >>
        /\ (planeSpeed' # planeSpeed \/ planeAltitude' # planeAltitude)
              => /\ ~manualControl'
                 /\ \E keys \in KeySets, deltaTime \in DeltaTimes :
                       /\ Frame(keys, deltaTime)
                       /\ keys \cap { "UP", "DOWN", "LEFT", "RIGHT" } # { }

\* C18: speed and altitude have no other state transition than the
\* automatic-mode parameter updates: they change only when an arrow key is
\* held during input processing in automatic mode (UP/DOWN: speed +/-0.01,
\* RIGHT/LEFT: altitude +/-0.01, then clamp); arrow keys in manual mode,
\* pointer, scroll, mode toggle and frame advance all leave them unchanged.
C18_SpeedAltitudeOnlyByArrowKeys == [][C18_Step]_vars

\* One frame of the plane view has raised both the speed and the altitude.
C18_Witness ==
    /\ ~manualControl
    /\ planeSpeed = 3000 + SpeedStep
    /\ planeAltitude = MinAltitude + AltitudeStep

\* C19: the view position exposed for shading equals the eye position used
\* to build the same frame's view matrix, in both modes: in automatic mode it
\* is the orbit position at the already-advanced angle and the current
\* altitude, in manual mode it is
\* distance * (sin(yaw)*cos(pitch), sin(pitch), cos(yaw)*cos(pitch)).
C19_ViewPositionIsEye ==
    pc = "loop" =>
        /\ viewPosition = view.eye
        /\ viewPosition =
              IF ~manualControl
              THEN PlanePos(planeAngle, planeAltitude)
              ELSE << FxMul(cameraDistance, FxMul(SinF(cameraAngleX), CosF(cameraAngleY))),
                      FxMul(cameraDistance, SinF(cameraAngleY)),
                      FxMul(cameraDistance, FxMul(CosF(cameraAngleX), CosF(cameraAngleY))) >>

\* The plane has left its starting angle and latitude, above its lowest
\* altitude.
C19_Witness ==
    /\ pc = "loop"
    /\ ~manualControl
    /\ planeAngle > 0
    /\ planeAltitude > MinAltitude
    /\ viewPosition[2] # 0

(***************************************************************************)
(* Claim about the end of the render loop (under SpecLive)                 *)
(***************************************************************************)
\* What C20 says of one step: the frame that sees ESC is completed, the
\* close flag stays set, no frame starts once it is set, and the loop is
\* left only from its test, with the flag set, for good.
C20_Step ==
    /\ \A keys \in KeySets, deltaTime \in DeltaTimes :
          Frame(keys, deltaTime) =>
              /\ ~shouldClose
              /\ pc' = "loop"
              /\ "ESC" \in keys => shouldClose'
    /\ shouldClose => shouldClose'
    /\ pc' = "done" => (pc = "done" \/ (pc = "loop" /\ shouldClose))
    /\ pc = "done" => pc' = "done"

\* While no close signal has been observed the loop has not ended and its
\* next frame can run.
C20_KeepsRunning ==
    /\ pc = "done" => shouldClose
    /\ (~shouldClose /\ Budget(events)) =>
          ENABLED (\E keys \in KeySets, deltaTime \in DeltaTimes :
                       Frame(keys, deltaTime))

\* C20: the render loop terminates when a close signal is observed: once ESC
\* is seen pressed in processInput (or the window's close flag is otherwise
\* set), the frame in progress is completed, no further frame is started, and
\* the cleanup code runs; while no close signal is observed the loop keeps
\* running frames.
C20_LoopTermination ==
    /\ [][C20_Step]_vars
    /\ []C20_KeepsRunning
    /\ shouldClose ~> (pc = "done")

\* The loop has ended after a frame that saw ESC while it was also changing
\* the speed.
C20_Witness ==
    /\ pc = "done"
    /\ shouldClose
    /\ planeSpeed # 3000
    /\ events > 0

(***************************************************************************)
(* Claims about the index buffer of generateSphere (under SpecSphere)      *)
(***************************************************************************)
\* The number of indices the reference emits for one sector of stack i, and
\* the number it emits before reaching sector j of stack i.
C21_PerSector(i, stacks) ==
    (IF i # 0 THEN 3 ELSE 0) + (IF i # stacks - 1 THEN 3 ELSE 0)

RECURSIVE C21_Before(_, _, _, _)
C21_Before(i, j, sectors, stacks) ==
    IF i = 0 THEN j * C21_PerSector(0, stacks)
    ELSE C21_Before(i - 1, sectors, sectors, stacks) + j * C21_PerSector(i, stacks)

\* C21: the index sequence produced by generateSphere equals the reference
\* sequence: for i = 0..stacks-1 in order and, within it, j = 0..sectors-1 in
\* order, with k1 = i*(sectors+1)+j and k2 = k1+sectors+1, first
\* (k1, k2, k1+1) if i != 0, then (k1+1, k2, k2+1) if i != stacks-1; nothing
\* else is emitted.
C21_IndexSequence ==
    FreshCall =>
        LET sectors == sphereArgs.sectors
            stacks == sphereArgs.stacks
        IN  /\ Len(indices) = C21_Before(stacks - 1, sectors, sectors, stacks)
            /\ \A i \in 0..(stacks - 1), j \in 0..(sectors - 1) :
                  LET k1 == i * (sectors + 1) + j
                      k2 == k1 + sectors + 1
                      at == C21_Before(i, j, sectors, stacks)
                      first == IF i # 0 THEN << k1, k2, k1 + 1 >> ELSE << >>
                      second == IF i # stacks - 1
                                THEN << k1 + 1, k2, k2 + 1 >> ELSE << >>
                  IN  SubSeq(indices, at + 1, at + C21_PerSector(i, stacks))
                        = first \o second

\* A 3 x 3 sphere has been generated: after the 9 indices of stack 0 come the
\* two triangles of stack 1, sector 0.
C21_Witness ==
    /\ FreshCall
    /\ sphereArgs.sectors = 3 /\ sphereArgs.stacks = 3
    /\ SubSeq(indices, 10, 15) = << 4, 8, 5, 5, 8, 9 >>

\* C28: for stacks >= 2 the first vertex (index 0) and the last vertex (index
\* (stacks+1)*(sectors+1)-1) are never referenced by the index buffer; the
\* largest emitted index is (stacks+1)*(sectors+1)-2 and the smallest is 1.
C28_EndVerticesUnreferenced ==
    (FreshCall /\ sphereArgs.stacks >= 2) =>
        LET last == (sphereArgs.stacks + 1) * (sphereArgs.sectors + 1) - 1
            emitted == { indices[n] : n \in 1..Len(indices) }
        IN  /\ 0 \notin emitted
            /\ last \notin emitted
            /\ 1 \in emitted
            /\ last - 1 \in emitted
            /\ \A k \in emitted : 1 <= k /\ k <= last - 1

\* The smallest sphere with two stacks has been generated: 12 vertices, of
\* which 1 and 10 are referenced.
C28_Witness ==
    /\ FreshCall
    /\ sphereArgs.sectors = 3 /\ sphereArgs.stacks = 2
    /\ NumVertices = 12
    /\ \E n \in 1..Len(indices) : indices[n] = 10

(***************************************************************************)
(* Claims about the two modes and their inputs (under Spec)                *)
(***************************************************************************)
\* What C22 says of one step: a step that ends in automatic mode (the frame
\* that toggles to it included) leaves the state of the manual mode as it
\* was, and a step that ends in manual mode leaves the state of the automatic
\* mode as it was.
C22_Step ==
    /\ ~manualControl' =>
          UNCHANGED << cameraAngleX, cameraAngleY, cameraDistance,
                       globeRotationX, globeRotationY >>
    /\ manualControl' =>
          UNCHANGED << planeAngle, planeSpeed, planeAltitude >>

\* C22: the two modes carry disjoint state and a mode toggle changes only the
\* mode flag: the program starts in automatic mode, and the toggle leaves
\* orbit angle, speed, altitude, yaw, pitch, distance and both globe rotation
\* angles unchanged, so values set in one mode are found unchanged when that
\* mode is re-entered.
C22_ModesCarryDisjointState ==
    /\ [](pc = "start" => ~manualControl)
    /\ [][C22_Step]_vars

\* What C23 says of one step: a frame flips the mode exactly when it sees
\* SPACE pressed and the frame before it did not; the arrow keys of that
\* frame are handled in the mode the frame has left; nothing but a frame
\* flips the mode.
C23_Step ==
    /\ \A keys \in KeySets, deltaTime \in DeltaTimes :
          Frame(keys, deltaTime) =>
              /\ spacePressed' = ("SPACE" \in keys)
              /\ (manualControl' # manualControl)
                    <=> ("SPACE" \in keys /\ ~spacePressed)
              /\ IF manualControl'
                 THEN /\ globeRotationY' = globeRotationY
                            + 2 * (One \div 100) * KeyDelta(keys, "RIGHT", "LEFT")
                      /\ UNCHANGED << planeSpeed, planeAltitude, planeAngle >>
                 ELSE /\ planeSpeed' = C18_Clamped(
                            planeSpeed + (One \div 100) * KeyDelta(keys, "UP", "DOWN"),
                            0, 2 * One)
                      /\ UNCHANGED << globeRotationX, globeRotationY >>
    /\ (manualControl' # manualControl \/ spacePressed' # spacePressed)
          => \E keys \in KeySets, deltaTime \in DeltaTimes : Frame(keys, deltaTime)

\* The view of a frame is that of the mode the frame has left.
C23_View ==
    pc = "loop" =>
        view.eye = IF manualControl
                   THEN CameraPos(cameraAngleX, cameraAngleY, cameraDistance)
                   ELSE PlanePos(planeAngle, planeAltitude)

\* C23: the mode toggle is edge-triggered: while SPACE stays pressed over any
\* number of consecutive frames the mode flips exactly once (on the first of
\* those frames), and it can flip again only after a frame in which SPACE was
\* observed released; the flip takes effect for the arrow-key handling and
\* the view of that same frame.
C23_ToggleOnSpaceEdge == [][C23_Step]_vars /\ []C23_View

\* The first frame saw SPACE and RIGHT together: the mode is manual and the
\* key has turned the globe instead of raising the plane.
C23_Witness ==
    /\ pc = "loop"
    /\ scenario = "mixed" /\ events = 1
    /\ manualControl /\ spacePressed
    /\ globeRotationY = RotSpeed
    /\ planeAltitude = MinAltitude

\* What C24 says of one step.
C24_Step ==
    /\ planeAngle' >= planeAngle
    /\ manualControl' => planeAngle' = planeAngle
    /\ planeAngle' # planeAngle =>
          \E keys \in KeySets, deltaTime \in DeltaTimes :
              /\ Frame(keys, deltaTime)
              /\ deltaTime > 0
              /\ planeSpeed' > 0

\* C24: the orbit angle is frozen while the mode is manual and never
\* decreases: frames rendered in manual mode leave planeAngle unchanged (the
\* orbit resumes from the same angle on return to automatic mode), no input
\* event changes it, and since speed >= 0 and dt >= 0 every automatic-mode
\* frame leaves it equal or larger.
C24_AngleFrozenInManual == [][C24_Step]_vars /\ [](planeSpeed >= 0)

\* The plane advanced for a second, the mode was switched to manual, and a
\* further frame has run there: the angle is where the switch left it.
C24_Witness ==
    /\ pc = "loop"
    /\ scenario = "mixed" /\ events = 3
    /\ manualControl /\ ~spacePressed
    /\ planeAngle = 3000

\* The first pointer move handled after a press of the left button re-bases
\* lastX and lastY and turns the camera by nothing; every press arms the
\* re-base, whatever the mode.
C25_FirstMove ==
    /\ \A x \in PointerXs, y \in PointerYs :
          (IsPointerMove(x, y) /\ mousePressed /\ manualControl /\ firstMouse) =>
              /\ UNCHANGED << cameraAngleX, cameraAngleY >>
              /\ lastX' = x /\ lastY' = y
              /\ ~firstMouse'
    /\ (mousePressed' /\ ~mousePressed) => firstMouse'
    /\ (firstMouse /\ ~firstMouse') => (mousePressed /\ manualControl)

\* Pointer travel that is not handled (button released, or automatic mode)
\* leaves lastX and lastY behind the cursor, and the handler cannot tell how
\* far the cursor went; such travel stays out of the next drag only if the
\* next move handled re-bases.  A press arms the re-base for travel with the
\* button released (C25_FirstMove); for travel in automatic mode with the
\* button held, the re-base must be armed when manual mode is entered.
C25_TravelDiscarded ==
    (manualControl' /\ ~manualControl /\ mousePressed') => firstMouse'

\* C25: the first pointer move processed after a left-button press never
\* changes yaw or pitch (it only re-bases lastX and lastY), including when the
\* press happened in automatic mode and the mode was switched to manual while
\* the button was held; pointer travel while the button is released or while
\* in automatic mode never contributes to a later drag.
C25_FirstMoveRebases == [][C25_FirstMove /\ C25_TravelDiscarded]_vars

\* The distance d brought back into [1.5, 10.0].
C26_Clamped(d) ==
    IF d < 15 * (One \div 10) THEN 15 * (One \div 10)
    ELSE IF d > 10 * One THEN 10 * One
    ELSE d

\* C26: scroll input is not gated by mode: a scroll event with offset y sets
\* distance to clamp(distance - 0.1*y, 1.5, 10.0) in automatic mode as well
\* as in manual mode, and changes nothing else.
C26_ScrollInEitherMode ==
    [][\A yoffset \in ScrollOffsets :
          scroll_callback(yoffset) =>
              /\ cameraDistance' =
                    C26_Clamped(cameraDistance - (One \div 10) * yoffset)
              /\ UNCHANGED << meshVars, planeVars, cameraAngleX, cameraAngleY,
                              mouseVars, globeVars, manualControl, spacePressed,
                              shouldClose, pc >>]_vars

\* One notch was scrolled right after the first frame, which left the mode
\* automatic: the distance has moved from 3.0 to 2.9.
C26_Witness ==
    /\ scenario = "mixed" /\ events = 2
    /\ pc = "loop" /\ ~manualControl
    /\ cameraDistance = 29 * (One \div 10)

\* C27: in every reachable state the camera eye lies strictly outside the
\* unit sphere: in automatic mode its distance from the origin is the
\* altitude, which is at least 1.05, and in manual mode it is the camera
\* distance, which is at least 1.5.
C27_EyeOutsideUnitSphere ==
    /\ Length(view.eye) > One
    /\ IF manualControl
       THEN /\ cameraDistance >= 15 * (One \div 10)
            /\ Abs(Length(view.eye) - cameraDistance) <= Tolerance
       ELSE /\ planeAltitude >= 105 * (One \div 100)
            /\ Abs(Length(view.eye) - planeAltitude) <= Tolerance

\* The manual camera looks from as close as scrolling brings it.
C27_Witness ==
    /\ pc = "loop" /\ manualControl
    /\ cameraDistance = 15 * (One \div 10)
    /\ Length(view.eye) = cameraDistance

=============================================================================
